---- MODULE Spec2Model ----
(***************************************************************************)
(* Paper-trading execution and risk-limiting engine.                       *)
(*                                                                         *)
(*   RiskManager  (src/risk/risk/risk_manager.py)  daily-loss risk gate    *)
(*   PaperTrader  (src/execution/paper_trade.py)   trade ledger            *)
(*   Trade        (src/execution/paper_trade.py)   one simulated position  *)
(*   main loop    (src/main.py)                    script over the rows    *)
(*                                                                         *)
(* Prices, quantities and PnL values are Python floats in the source; they *)
(* are modelled as integers, on which the source's additions, differences *)
(* and products are exact; quotients are kept as exact fractions and the   *)
(* fractions of config.json in percent.  datetime.now().date() is the      *)
(* variable today, advanced by Tick.                                       *)
(***************************************************************************)
EXTENDS Integers, Sequences, FiniteSets, TLC

\* ------------------------------------------------------------------ bounds
MaxPnl == 2
MaxLog == 2
MaxDailyPnl == 2
MaxDay == 2
MaxLimit == 2
MaxPrice == 4
MaxQty == 2
MaxSnaps == 2
MaxItems == 2
MaxClose == 3
MaxRows == 4

\* ------------------------------------------------------------------ values
None == "None"
PnlInputs == (-MaxPnl)..MaxPnl
LimitInputs == (-MaxLimit)..1
LogIds == {None, "T1"}
TradeIds == {"T1", "T2"}
PriceInputs == 0..MaxPrice
QtyInputs == {0, 1, MaxQty}
ReasonInputs == {"MANUAL_EXIT"}
TradeReasons == {"MANUAL_EXIT", "TIME_EXIT"}
Now == "now"                      \* a datetime value

\* an Optional[float] field is a sequence: <<>> is None, <<v>> is the value v
Unset == <<>>
Float(v) == <<v>>

\* the outcome of a PaperTrader call: a returned value or a raised exception
Return(v) == <<"return", v>>
Raise(exception, message) == <<exception, message>>

VARIABLES
    \* RiskManager
    rm_state,          \* "ok" once constructed, "ValueError" if __init__ raised
    max_daily_loss,
    daily_pnl,
    trading_allowed,
    session_date,
    rm_trades,         \* self.trades of RiskManager: the day's trade log
    today,             \* datetime.now().date()
    rm_last,           \* the last RiskManager call: [op, pnl, ret]
    accepted,          \* history: pnl of the update_pnl calls that returned
                       \* True since the last rollover, in call order
    \* PaperTrader
    heap,              \* the Trade objects, in creation order; a Trade
                       \* reference is an index into heap
    trades,            \* self.trades: references, insertion order
    open_trades,       \* self.open_trades: trade_id -> reference
    closed_trades,     \* self.closed_trades: references, closure order
    total_pnl,
    pt_last,           \* the last PaperTrader call: [op, trade_id, args, ret]
    used_ids,          \* history: the IDs enter_trade ever accepted
    \* a Trade object held by a caller (as returned by enter_trade/get_trade)
    trade,
    trade_last,        \* the last method called on it: [op, args]
    \* the list objects get_open_trades / get_closed_trades / get_all_trades
    \* returned to a caller, in call order
    snaps,
    snap_last,         \* the last list method the caller applied: [op, args, ret]
    \* main.py
    config,            \* config.json, fractions in percent
    rm,                \* the fields of main.py's own RiskManager object
    row,               \* the loop index i: the number of rows processed
    main_last          \* the last step of the script: [op, day, close, signal, out]

rm_vars == <<rm_state, max_daily_loss, daily_pnl, trading_allowed,
             session_date, rm_trades, today, rm_last, accepted>>

pt_vars == <<heap, trades, open_trades, closed_trades, total_pnl, pt_last,
             used_ids>>

td_vars == <<trade, trade_last, snaps, snap_last>>

mn_vars == <<config, rm, row, main_last>>

vars == <<rm_vars, pt_vars, td_vars, mn_vars>>

RECURSIVE SumSeq(_)
SumSeq(s) == IF s = <<>> THEN 0 ELSE s[1] + SumSeq(Tail(s))

\* =================================================================
\* RiskManager
\* =================================================================

\* a constructor that rejects only positive limits
RiskManager__init___accepts_zero(limit) ==
    /\ today = 1
    /\ rm_last = [op |-> "__init__", pnl |-> limit, ret |-> None]
    /\ accepted = <<>>
    /\ IF limit > 0
       THEN /\ rm_state = "ValueError"
            /\ max_daily_loss = None
            /\ daily_pnl = None
            /\ trading_allowed = None
            /\ session_date = None
            /\ rm_trades = None
       ELSE /\ rm_state = "ok"
            /\ max_daily_loss = limit
            /\ daily_pnl = 0
            /\ trading_allowed = TRUE
            /\ session_date = today
            /\ rm_trades = <<>>
RiskManager__init__(limit) ==
    /\ today = 1
    /\ rm_last = [op |-> "__init__", pnl |-> limit, ret |-> None]
    /\ accepted = <<>>
    /\ IF limit >= 0
       THEN /\ rm_state = "ValueError"
            /\ max_daily_loss = None
            /\ daily_pnl = None
            /\ trading_allowed = None
            /\ session_date = None
            /\ rm_trades = None
       ELSE /\ rm_state = "ok"
            /\ max_daily_loss = limit
            /\ daily_pnl = 0
            /\ trading_allowed = TRUE
            /\ session_date = today
            /\ rm_trades = <<>>

\* the condition of _check_date_reset
DateChanged_always == TRUE
DateChanged == today # session_date

\* the fields after reset_daily_pnl(); session_date is left alone
reset_fields == [daily_pnl |-> 0, trading_allowed |-> TRUE, rm_trades |-> <<>>]

\* _check_date_reset without "self.session_date = current_date"
Checked_stale_date ==
    IF DateChanged
    THEN [daily_pnl |-> reset_fields.daily_pnl,
          trading_allowed |-> reset_fields.trading_allowed,
          rm_trades |-> reset_fields.rm_trades,
          session_date |-> session_date,
          accepted |-> <<>>]
    ELSE [daily_pnl |-> daily_pnl,
          trading_allowed |-> trading_allowed,
          rm_trades |-> rm_trades,
          session_date |-> session_date,
          accepted |-> accepted]
\* the fields an operation's own logic sees after _check_date_reset()
Checked ==
    IF DateChanged
    THEN [daily_pnl |-> reset_fields.daily_pnl,
          trading_allowed |-> reset_fields.trading_allowed,
          rm_trades |-> reset_fields.rm_trades,
          session_date |-> today,
          accepted |-> <<>>]
    ELSE [daily_pnl |-> daily_pnl,
          trading_allowed |-> trading_allowed,
          rm_trades |-> rm_trades,
          session_date |-> session_date,
          accepted |-> accepted]

reset_daily_pnl ==
    /\ rm_state = "ok"
    /\ daily_pnl' = reset_fields.daily_pnl
    /\ trading_allowed' = reset_fields.trading_allowed
    /\ rm_trades' = reset_fields.rm_trades
    /\ accepted' = <<>>
    /\ rm_last' = [op |-> "reset_daily_pnl", pnl |-> None, ret |-> None]
    /\ UNCHANGED <<rm_state, max_daily_loss, session_date, today>>

\* the overshoot test left out: every update on an open gate is accepted
WouldBreach_never(new_pnl) == FALSE
\* "if new_pnl < self.max_daily_loss": the update would overshoot the limit
WouldBreach(new_pnl) == new_pnl < max_daily_loss

\* "new_pnl = self.daily_pnl + pnl"
NewPnl_single(current, pnl) == pnl
NewPnl(current, pnl) == current + pnl

\* "if self.daily_pnl <= self.max_daily_loss": the limit has been reached
LimitReached_lt(pnl_now) == pnl_now < max_daily_loss
LimitReached(pnl_now) == pnl_now <= max_daily_loss

\* the entry appended to self.trades
LogEntry_stale(pnl, cumulative, trade_id) ==
    [timestamp |-> today, pnl |-> pnl,
     cumulative_pnl |-> cumulative - pnl, trade_id |-> trade_id]
LogEntry(pnl, cumulative, trade_id) ==
    [timestamp |-> today, pnl |-> pnl,
     cumulative_pnl |-> cumulative, trade_id |-> trade_id]

\* "if not self.trading_allowed: return False"
LatchClosed_never(c) == FALSE
LatchClosed(c) == ~c.trading_allowed

update_pnl(pnl, trade_id) ==
    LET c == Checked
        new_pnl == NewPnl(c.daily_pnl, pnl)
    IN
    /\ rm_state = "ok"
    /\ session_date' = c.session_date
    /\ IF LatchClosed(c) \/ WouldBreach(new_pnl)
       THEN /\ daily_pnl' = c.daily_pnl
            /\ trading_allowed' = c.trading_allowed
            /\ rm_trades' = c.rm_trades
            /\ accepted' = c.accepted
            /\ rm_last' = [op |-> "update_pnl", pnl |-> pnl, ret |-> FALSE]
       ELSE /\ new_pnl <= MaxDailyPnl
            /\ Len(c.rm_trades) < MaxLog
            /\ daily_pnl' = new_pnl
            /\ rm_trades' = Append(c.rm_trades, LogEntry(pnl, new_pnl, trade_id))
            /\ trading_allowed' =
                  IF LimitReached(new_pnl) THEN FALSE ELSE c.trading_allowed
            /\ accepted' = Append(c.accepted, pnl)
            /\ rm_last' = [op |-> "update_pnl", pnl |-> pnl, ret |-> TRUE]
    /\ UNCHANGED <<rm_state, max_daily_loss, today>>

\* an operation that runs _check_date_reset() and then only reads
Query(op, result) ==
    LET c == Checked IN
    /\ rm_state = "ok"
    /\ daily_pnl' = c.daily_pnl
    /\ trading_allowed' = c.trading_allowed
    /\ rm_trades' = c.rm_trades
    /\ session_date' = c.session_date
    /\ accepted' = c.accepted
    /\ rm_last' = [op |-> op, pnl |-> None, ret |-> result]
    /\ UNCHANGED <<rm_state, max_daily_loss, today>>

is_trading_allowed == Query("is_trading_allowed", Checked.trading_allowed)

get_daily_pnl == Query("get_daily_pnl", Checked.daily_pnl)

\* the budget with the operands the other way round
RemainingBudget_swapped(c) == c.daily_pnl - max_daily_loss
RemainingBudget(c) == max_daily_loss - c.daily_pnl

get_remaining_loss_budget ==
    Query("get_remaining_loss_budget", RemainingBudget(Checked))

get_trade_history == Query("get_trade_history", Checked.rm_trades)

get_status ==
    Query("get_status",
          [trading_allowed |-> Checked.trading_allowed,
           daily_pnl |-> Checked.daily_pnl,
           max_daily_loss |-> max_daily_loss,
           remaining_loss_budget |-> RemainingBudget(Checked),
           num_trades |-> Len(Checked.rm_trades),
           session_date |-> Checked.session_date])

\* the wall clock passes midnight
Tick ==
    /\ today < MaxDay
    /\ today' = today + 1
    /\ UNCHANGED <<rm_state, max_daily_loss, daily_pnl, trading_allowed,
                   session_date, rm_trades, rm_last, accepted>>

\* =================================================================
\* Trade
\* =================================================================

OPEN == "OPEN"
CLOSED_PROFIT == "CLOSED_PROFIT"
CLOSED_LOSS == "CLOSED_LOSS"
CLOSED_STOPPED == "CLOSED_STOPPED"

Trade__init__(trade_id, entry_price, stop_loss, target_price, quantity) ==
    [trade_id |-> trade_id,
     entry_price |-> entry_price,
     stop_loss |-> stop_loss,
     target_price |-> target_price,
     quantity |-> quantity,
     entry_time |-> Now,
     exit_price |-> Unset,
     exit_time |-> None,
     status |-> OPEN,
     pnl |-> Unset,
     pnl_percent |-> Unset,
     exit_reason |-> None]

\* pnl_percent = (price_diff / entry_price) * 100 is kept as the exact
\* fraction <<numerator, denominator>>
_calculate_pnl_no_percent(t) ==
    IF t.exit_price = Unset
    THEN t
    ELSE LET price_diff == t.exit_price[1] - t.entry_price IN
         [t EXCEPT !.pnl = Float(price_diff * t.quantity)]
_calculate_pnl_per_unit(t) ==
    IF t.exit_price = Unset
    THEN t
    ELSE LET price_diff == t.exit_price[1] - t.entry_price IN
         [t EXCEPT !.pnl = Float(price_diff),
                   !.pnl_percent = Float(<<price_diff * 100, t.entry_price>>)]
_calculate_pnl(t) ==
    IF t.exit_price = Unset
    THEN t
    ELSE LET price_diff == t.exit_price[1] - t.entry_price IN
         [t EXCEPT !.pnl = Float(price_diff * t.quantity),
                   !.pnl_percent = Float(<<price_diff * 100, t.entry_price>>)]

close_at_target(t) ==
    _calculate_pnl([t EXCEPT !.exit_price = Float(t.target_price),
                             !.exit_time = Now,
                             !.status = CLOSED_PROFIT,
                             !.exit_reason = "TARGET_HIT"])

close_at_stop_loss(t) ==
    _calculate_pnl([t EXCEPT !.exit_price = Float(t.stop_loss),
                             !.exit_time = Now,
                             !.status = CLOSED_STOPPED,
                             !.exit_reason = "STOP_LOSS_HIT"])

\* close_at_price with the status taken from the sign of the price move
close_at_price_by_entry(t, exit_price, reason) ==
    LET c == _calculate_pnl([t EXCEPT !.exit_price = Float(exit_price),
                                      !.exit_time = Now,
                                      !.exit_reason = reason])
    IN [c EXCEPT !.status = IF exit_price >= t.target_price THEN CLOSED_PROFIT
                            ELSE IF exit_price <= t.stop_loss THEN CLOSED_STOPPED
                            ELSE IF exit_price > t.entry_price THEN CLOSED_PROFIT
                            ELSE CLOSED_LOSS]
close_at_price(t, exit_price, reason) ==
    LET c == _calculate_pnl([t EXCEPT !.exit_price = Float(exit_price),
                                      !.exit_time = Now,
                                      !.exit_reason = reason])
    IN [c EXCEPT !.status = IF exit_price >= t.target_price THEN CLOSED_PROFIT
                            ELSE IF exit_price <= t.stop_loss THEN CLOSED_STOPPED
                            ELSE CLOSED_LOSS]

\* =================================================================
\* PaperTrader
\* =================================================================

PaperTrader__init__ ==
    /\ heap = <<>>
    /\ trades = <<>>
    /\ open_trades = <<>>          \* the empty mapping
    /\ closed_trades = <<>>
    /\ total_pnl = 0
    /\ pt_last = [op |-> "__init__", trade_id |-> None, args |-> None,
                  ret |-> Return(None)]
    /\ used_ids = {}

\* "trade_id in self.open_trades or any(t.trade_id == trade_id for t in
\* self.closed_trades)"
IdExists_open_only(trade_id) == trade_id \in DOMAIN open_trades
IdExists(trade_id) ==
    \/ trade_id \in DOMAIN open_trades
    \/ \E i \in 1..Len(closed_trades) : heap[closed_trades[i]].trade_id = trade_id

\* the parameter checks of enter_trade, in source order: the message of the
\* ValueError raised, or None when every check passes
ParamError_no_order(entry_price, stop_loss, target_price, quantity) ==
    IF entry_price <= 0 THEN "entry_price must be positive"
    ELSE IF stop_loss <= 0 THEN "stop_loss must be positive"
    ELSE IF target_price <= 0 THEN "target_price must be positive"
    ELSE IF quantity <= 0 THEN "quantity must be positive"
    ELSE IF stop_loss > entry_price
         THEN "stop_loss must be below entry_price for long trades"
    ELSE IF target_price < entry_price
         THEN "target_price must be above entry_price for long trades"
    ELSE None
ParamError(entry_price, stop_loss, target_price, quantity) ==
    IF entry_price <= 0 THEN "entry_price must be positive"
    ELSE IF stop_loss <= 0 THEN "stop_loss must be positive"
    ELSE IF target_price <= 0 THEN "target_price must be positive"
    ELSE IF quantity <= 0 THEN "quantity must be positive"
    ELSE IF stop_loss >= entry_price
         THEN "stop_loss must be below entry_price for long trades"
    ELSE IF target_price <= entry_price
         THEN "target_price must be above entry_price for long trades"
    ELSE None

enter_trade(trade_id, entry_price, stop_loss, target_price, quantity) ==
    LET args == <<entry_price, stop_loss, target_price, quantity>>
        err == IF IdExists(trade_id)
               THEN "Trade with ID already exists"
               ELSE ParamError(entry_price, stop_loss, target_price, quantity)
        ref == Len(heap) + 1
    IN
    IF err # None
    THEN /\ pt_last' = [op |-> "enter_trade", trade_id |-> trade_id,
                        args |-> args, ret |-> Raise("ValueError", err)]
         /\ UNCHANGED <<heap, trades, open_trades, closed_trades, total_pnl,
                        used_ids>>
    ELSE /\ heap' = Append(heap, Trade__init__(trade_id, entry_price, stop_loss,
                                               target_price, quantity))
         /\ trades' = Append(trades, ref)
         /\ open_trades' = [k \in DOMAIN open_trades \cup {trade_id} |->
                              IF k = trade_id THEN ref ELSE open_trades[k]]
         /\ used_ids' = used_ids \cup {trade_id}
         /\ pt_last' = [op |-> "enter_trade", trade_id |-> trade_id,
                        args |-> args, ret |-> Return(ref)]
         /\ UNCHANGED <<closed_trades, total_pnl>>

\* the ledger fields after _move_to_closed(trade_id), given the heap h in
\* which the trade has been closed
_move_to_closed_keep_open(h, trade_id) ==
    LET ref == open_trades[trade_id] IN
    [open_trades |-> open_trades,
     closed_trades |-> Append(closed_trades, ref),
     total_pnl |-> IF h[ref].pnl # Unset THEN total_pnl + h[ref].pnl[1]
                   ELSE total_pnl]
_move_to_closed_no_total(h, trade_id) ==
    LET ref == open_trades[trade_id] IN
    [open_trades |-> [k \in DOMAIN open_trades \ {trade_id} |-> open_trades[k]],
     closed_trades |-> Append(closed_trades, ref),
     total_pnl |-> total_pnl]
_move_to_closed(h, trade_id) ==
    LET ref == open_trades[trade_id] IN
    [open_trades |-> [k \in DOMAIN open_trades \ {trade_id} |-> open_trades[k]],
     closed_trades |-> Append(closed_trades, ref),
     total_pnl |-> IF h[ref].pnl # Unset THEN total_pnl + h[ref].pnl[1]
                   ELSE total_pnl]

\* "if trade_id not in self.open_trades: return False"
NotOpen_never(trade_id) == trade_id \notin used_ids
NotOpen(trade_id) == trade_id \notin DOMAIN open_trades

\* the Trade transition each exit method applies to the open trade
close(op, t, args) ==
    CASE op = "exit_trade_at_target" -> close_at_target(t)
      [] op = "exit_trade_at_stop_loss" -> close_at_stop_loss(t)
      [] op = "exit_trade_at_price" -> close_at_price(t, args[1], args[2])

\* the common shape of exit_trade_at_target / _at_stop_loss / _at_price
exit_trade(op, trade_id, args) ==
    IF NotOpen(trade_id)
    THEN /\ pt_last' = [op |-> op, trade_id |-> trade_id, args |-> args,
                        ret |-> Return(FALSE)]
         /\ UNCHANGED <<heap, trades, open_trades, closed_trades, total_pnl,
                        used_ids>>
    ELSE IF trade_id \notin DOMAIN open_trades
    THEN \* "trade = self.open_trades[trade_id]" raises KeyError
         /\ pt_last' = [op |-> op, trade_id |-> trade_id, args |-> args,
                        ret |-> Raise("KeyError", trade_id)]
         /\ UNCHANGED <<heap, trades, open_trades, closed_trades, total_pnl,
                        used_ids>>
    ELSE LET ref == open_trades[trade_id]
             h == [heap EXCEPT ![ref] = close(op, heap[ref], args)]
             m == _move_to_closed(h, trade_id)
         IN /\ heap' = h
            /\ open_trades' = m.open_trades
            /\ closed_trades' = m.closed_trades
            /\ total_pnl' = m.total_pnl
            /\ pt_last' = [op |-> op, trade_id |-> trade_id, args |-> args,
                           ret |-> Return(TRUE)]
            /\ UNCHANGED <<trades, used_ids>>

exit_trade_at_target(trade_id) ==
    exit_trade("exit_trade_at_target", trade_id, None)

exit_trade_at_stop_loss(trade_id) ==
    exit_trade("exit_trade_at_stop_loss", trade_id, None)

exit_trade_at_price(trade_id, exit_price, reason) ==
    exit_trade("exit_trade_at_price", trade_id, <<exit_price, reason>>)

\* float division, kept exact: the quotient n / d (d > 0) as the fraction
\* <<numerator, denominator>> in lowest terms
RECURSIVE GCD(_, _)
GCD(a, b) == IF b = 0 THEN a ELSE GCD(b, a % b)

Div(n, d) ==
    LET g == GCD(IF n < 0 THEN -n ELSE n, d) IN <<n \div g, d \div g>>

\* the literal 0.0
Zero == Div(0, 1)

\* "[trade.pnl for trade in self.closed_trades if trade.pnl is not None]"
RECURSIVE PnlList(_)
PnlList(refs) ==
    IF refs = <<>> THEN <<>>
    ELSE LET rest == PnlList(Tail(refs)) IN
         IF heap[Head(refs)].pnl # Unset
         THEN <<heap[Head(refs)].pnl[1]>> \o rest
         ELSE rest

get_pnl_list == PnlList(closed_trades)

\* "trade.pnl is not None and trade.pnl > 0"
IsWinning_or_flat(t) == t.pnl # Unset /\ t.pnl[1] >= 0
IsWinning(t) == t.pnl # Unset /\ t.pnl[1] > 0

\* the value get_win_rate returns
WinRate ==
    IF closed_trades = <<>>
    THEN Zero
    ELSE LET winning_trades ==
               Cardinality({i \in 1..Len(closed_trades) :
                              IsWinning(heap[closed_trades[i]])})
         IN Div(winning_trades * 100, Len(closed_trades))

get_win_rate ==
    /\ pt_last' = [op |-> "get_win_rate", trade_id |-> None, args |-> None,
                   ret |-> Return(WinRate)]
    /\ UNCHANGED <<heap, trades, open_trades, closed_trades, total_pnl,
                   used_ids>>

\* "gross_profit / gross_loss if gross_loss > 0 else 0.0"
ProfitFactor_unbounded(gross_profit, gross_loss) ==
    IF gross_loss > 0 THEN Div(gross_profit, gross_loss)
    ELSE Div(gross_profit, 1)
ProfitFactor(gross_profit, gross_loss) ==
    IF gross_loss > 0 THEN Div(gross_profit, gross_loss) ELSE Zero

\* "sum(pnls) / len(pnls) if pnls else 0.0"
Average(pnls) ==
    IF pnls # <<>> THEN Div(SumSeq(pnls), Len(pnls)) ELSE Zero

\* the dictionary get_statistics returns
Statistics ==
    LET closed_pnls == get_pnl_list
        Positive(pnl) == pnl > 0
        Negative(pnl) == pnl < 0
        winning_pnls == SelectSeq(closed_pnls, Positive)
        losing_pnls == SelectSeq(closed_pnls, Negative)
        gross_profit == SumSeq(winning_pnls)
        sum_losing == SumSeq(losing_pnls)
        gross_loss == IF sum_losing < 0 THEN -sum_losing ELSE sum_losing
    IN
    IF closed_pnls = <<>>
    THEN [total_trades |-> Len(trades),
          open_trades |-> Cardinality(DOMAIN open_trades),
          closed_trades |-> Len(closed_trades),
          total_pnl |-> 0,
          win_rate |-> Zero,
          avg_win |-> Zero,
          avg_loss |-> Zero,
          profit_factor |-> Zero]
    ELSE [total_trades |-> Len(trades),
          open_trades |-> Cardinality(DOMAIN open_trades),
          closed_trades |-> Len(closed_trades),
          total_pnl |-> total_pnl,
          win_rate |-> WinRate,
          avg_win |-> Average(winning_pnls),
          avg_loss |-> Average(losing_pnls),
          profit_factor |-> ProfitFactor(gross_profit, gross_loss)]

get_statistics ==
    /\ pt_last' = [op |-> "get_statistics", trade_id |-> None, args |-> None,
                   ret |-> Return(Statistics)]
    /\ UNCHANGED <<heap, trades, open_trades, closed_trades, total_pnl,
                   used_ids>>
\* ---- the collections handed to a caller ----

\* the values of a dict in insertion order: enter_trade inserts the open
\* trades in the order of their references
RECURSIVE Ascending(_)
Ascending(S) ==
    IF S = {} THEN <<>>
    ELSE LET m == CHOOSE x \in S : \A y \in S : x <= y IN
         <<m>> \o Ascending(S \ {m})

OpenValues == Ascending({open_trades[k] : k \in DOMAIN open_trades})

\* a list object: owner names the ledger field whose list object it is, or is
\* None for a list object of its own, which then holds its items itself.
\* "list(...)" and ".copy()" build a list object of their own.
ListCopy_same_object(owner, items) == [owner |-> owner, items |-> items]
ListCopy(owner, items) == [owner |-> None, items |-> items]

\* the items of a list object
Contents(l) ==
    CASE l.owner = None -> l.items
      [] l.owner = "trades" -> trades
      [] l.owner = "closed_trades" -> closed_trades
      [] l.owner = "open_trades" -> OpenValues

\* the number of accepted enter_trade and exit_trade_* calls so far
LedgerVersion == Len(trades) + Len(closed_trades)

\* the common shape of get_open_trades / get_closed_trades / get_all_trades:
\* the list l is returned and kept by the caller
Getter(op, l) ==
    /\ Len(snaps) < MaxSnaps
    /\ snaps' = Append(snaps, [list |-> l, op |-> op, at |-> LedgerVersion,
                               touched |-> FALSE])
    /\ pt_last' = [op |-> op, trade_id |-> None, args |-> None,
                   ret |-> Return(Len(snaps) + 1)]
    /\ UNCHANGED <<heap, trades, open_trades, closed_trades, total_pnl,
                   used_ids, snap_last>>

get_open_trades == Getter("get_open_trades", ListCopy("open_trades", OpenValues))

get_closed_trades ==
    Getter("get_closed_trades", ListCopy("closed_trades", closed_trades))

get_all_trades == Getter("get_all_trades", ListCopy("trades", trades))

\* the caller's list object snaps[i] takes the value items
Store(i, items) ==
    LET l == snaps[i].list
        ids == {heap[items[j]].trade_id : j \in 1..Len(items)}
    IN
    /\ snaps' = [snaps EXCEPT ![i].list.items =
                                 IF l.owner = None THEN items ELSE @,
                              ![i].touched = TRUE]
    /\ trades' = IF l.owner = "trades" THEN items ELSE trades
    /\ closed_trades' = IF l.owner = "closed_trades" THEN items
                        ELSE closed_trades
    /\ open_trades' =
          IF l.owner = "open_trades"
          THEN [k \in ids |->
                  CHOOSE r \in {items[j] : j \in 1..Len(items)} :
                      heap[r].trade_id = k]
          ELSE open_trades
    /\ UNCHANGED <<heap, total_pnl, used_ids, pt_last>>

\* the caller appends a Trade to a list it was given
ListAppend(i, ref) ==
    /\ Len(Contents(snaps[i].list)) < MaxItems
    /\ Store(i, Append(Contents(snaps[i].list), ref))
    /\ snap_last' = [op |-> "append", args |-> <<i, ref>>, ret |-> Return(None)]

\* the caller pops the last Trade off a list it was given
ListPop(i) ==
    LET c == Contents(snaps[i].list) IN
    IF c = <<>>
    THEN /\ snap_last' = [op |-> "pop", args |-> <<i>>,
                          ret |-> Raise("IndexError", "pop from empty list")]
         /\ UNCHANGED <<pt_vars, snaps>>
    ELSE /\ Store(i, SubSeq(c, 1, Len(c) - 1))
         /\ snap_last' = [op |-> "pop", args |-> <<i>>, ret |-> Return(c[Len(c)])]
get_total_pnl ==
    /\ pt_last' = [op |-> "get_total_pnl", trade_id |-> None, args |-> None,
                   ret |-> Return(total_pnl)]
    /\ UNCHANGED <<heap, trades, open_trades, closed_trades, total_pnl,
                   used_ids>>

\* =================================================================
\* main.py: its own RiskManager and the loop over the rows of data.csv
\* =================================================================

\* config.json: the fractions max_risk_per_trade, max_daily_loss, stop_loss
\* and target are held in percent, so that every comparison of the script is
\* one between integers
Configs ==
    [trading_capital : {10}, max_risk_per_trade : {10},
     max_daily_loss : {10, 20}, stop_loss : {25}, target : {50},
     paper_trading : {TRUE}]

\* the Close, EMA and VWAP columns
CloseInputs == 1..MaxClose

\* the fields __init__ sets besides the copies of config
main_RiskManager__init__ ==
    [daily_pnl |-> 0,
     total_pnl |-> 0,
     open_position |-> None,
     entry_price |-> Unset,
     current_day |-> Unset,
     trade_log |-> <<>>]

\* reset_day without the carry of the finished day into the total
reset_day_no_carry(r, day) ==
    [r EXCEPT !.daily_pnl = 0,
              !.open_position = None,
              !.entry_price = Unset,
              !.current_day = <<day>>]
reset_day(r, day) ==
    [r EXCEPT !.total_pnl = IF r.current_day # Unset THEN @ + r.daily_pnl
                            ELSE @,
              !.daily_pnl = 0,
              !.open_position = None,
              !.entry_price = Unset,
              !.current_day = <<day>>]

\* "self.daily_pnl > -self.capital * self.max_daily_loss"
can_trade_at_limit(r) ==
    r.daily_pnl * 100 >= -(config.trading_capital * config.max_daily_loss)
can_trade(r) ==
    r.daily_pnl * 100 > -(config.trading_capital * config.max_daily_loss)

rm_enter_trade(r, price, date) ==
    [r EXCEPT !.open_position = "LONG",
              !.entry_price = Float(price)]

rm_exit_trade(r, price, date, reason) ==
    LET logged ==
          IF r.open_position = "LONG"
          THEN LET trade_pnl == price - r.entry_price[1] IN
               [r EXCEPT !.daily_pnl = @ + trade_pnl,
                         !.trade_log =
                            Append(@, [Date |-> date,
                                       EntryPrice |-> r.entry_price[1],
                                       ExitPrice |-> price,
                                       Reason |-> reason,
                                       TradePnL |-> trade_pnl,
                                       Day |-> r.current_day[1]])]
          ELSE r
    IN [logged EXCEPT !.open_position = None,
                      !.entry_price = Unset]

\* "if close > ema and close > vwap: signal = 'BUY'"
Signal(close_px, ema, vwap) ==
    IF close_px > ema /\ close_px > vwap THEN "BUY" ELSE None

\* "close >= rm.entry_price * (1 + rm.target)"
TargetReached(r, close_px) ==
    close_px * 100 >= r.entry_price[1] * (100 + config.target)

\* "close <= rm.entry_price * (1 - rm.stop_loss)"
StopReached(r, close_px) ==
    close_px * 100 <= r.entry_price[1] * (100 - config.stop_loss)

\* the trading logic of one row: the RiskManager object after it and the line
\* it printed (ENTER LONG, Trade blocked, EXIT LONG with its reason, or none)
TradingLogic(r, date, close_px, signal) ==
    IF r.open_position = None /\ signal = "BUY"
    THEN IF can_trade(r)
         THEN [rm |-> rm_enter_trade(r, close_px, date), out |-> "ENTER"]
         ELSE [rm |-> r, out |-> "BLOCKED"]
    ELSE IF r.open_position = "LONG"
    THEN IF TargetReached(r, close_px)
         THEN [rm |-> rm_exit_trade(r, close_px, date, "TARGET HIT"),
               out |-> "TARGET HIT"]
         ELSE IF StopReached(r, close_px)
         THEN [rm |-> rm_exit_trade(r, close_px, date, "STOP LOSS"),
               out |-> "STOP LOSS"]
         ELSE [rm |-> r, out |-> None]
    ELSE [rm |-> r, out |-> None]

\* one iteration of the main loop, on a row of the given day; the rows are in
\* chronological order
MainLoop(day, close_px, ema, vwap) ==
    /\ main_last.op # "final_summary"
    /\ row < MaxRows
    /\ IF rm.current_day = Unset
       THEN day = 1
       ELSE day \in {rm.current_day[1], rm.current_day[1] + 1}
    /\ LET date == <<day, row>>
           r == IF rm.current_day # <<day>> THEN reset_day(rm, day) ELSE rm
           signal == Signal(close_px, ema, vwap)
           done == TradingLogic(r, date, close_px, signal)
       IN /\ rm' = done.rm
          /\ main_last' = [op |-> "loop", day |-> day, close |-> close_px,
                           signal |-> signal, out |-> done.out]
    /\ row' = row + 1
    /\ UNCHANGED config

\* the loop is over: len(df) rows were processed
final_summary ==
    /\ main_last.op # "final_summary"
    /\ rm' = [rm EXCEPT !.total_pnl = IF rm.current_day # Unset
                                      THEN @ + rm.daily_pnl ELSE @]
    /\ main_last' = [op |-> "final_summary", day |-> 0, close |-> 0,
                     signal |-> None, out |-> None]
    /\ UNCHANGED <<config, row>>

\* =================================================================
\* Specifications
\* =================================================================

\* main.py is not running
NoMain ==
    /\ config = None
    /\ rm = None
    /\ row = 0
    /\ main_last = None

\* the caller has applied no list method yet
NoListCall == [op |-> None, args |-> <<>>, ret |-> Return(None)]

\* no Trade object and no list is held outside the ledger
NoTrade ==
    /\ trade = None
    /\ trade_last = None
    /\ snaps = <<>>
    /\ snap_last = NoListCall

InitRisk ==
    /\ \E limit \in LimitInputs : RiskManager__init__(limit)
    /\ PaperTrader__init__
    /\ NoTrade
    /\ NoMain

NextRisk ==
    /\ UNCHANGED <<pt_vars, td_vars, mn_vars>>
    /\ \/ \E pnl \in PnlInputs, trade_id \in LogIds : update_pnl(pnl, trade_id)
       \/ reset_daily_pnl
       \/ is_trading_allowed
       \/ get_daily_pnl
       \/ get_remaining_loss_budget
       \/ get_trade_history
       \/ get_status
       \/ Tick

SpecRisk == InitRisk /\ [][NextRisk]_vars

\* the arguments enter_trade is called with: the tuple the source's docstring
\* uses (entry above stop, below target) scaled to the model's prices, and
\* every tuple that differs from it in a single argument
BaseArgs == <<2, 1, 3, 1>>
EnterInputs ==
         {<<e, BaseArgs[2], BaseArgs[3], BaseArgs[4]>> : e \in PriceInputs}
    \cup {<<BaseArgs[1], sl, BaseArgs[3], BaseArgs[4]>> : sl \in PriceInputs}
    \cup {<<BaseArgs[1], BaseArgs[2], tp, BaseArgs[4]>> : tp \in PriceInputs}
    \cup {<<BaseArgs[1], BaseArgs[2], BaseArgs[3], q>> : q \in QtyInputs}

InitTrader ==
    /\ RiskManager__init__(-MaxLimit)
    /\ PaperTrader__init__
    /\ NoTrade
    /\ NoMain

NextTrader ==
    /\ UNCHANGED <<rm_vars, td_vars, mn_vars>>
    /\ \/ \E trade_id \in TradeIds, a \in EnterInputs :
             enter_trade(trade_id, a[1], a[2], a[3], a[4])
       \/ \E trade_id \in TradeIds : exit_trade_at_target(trade_id)
       \/ \E trade_id \in TradeIds : exit_trade_at_stop_loss(trade_id)
       \/ \E trade_id \in TradeIds, p \in PriceInputs, reason \in ReasonInputs :
             exit_trade_at_price(trade_id, p, reason)
       \/ get_total_pnl

SpecTrader == InitTrader /\ [][NextTrader]_vars


\* ---- the ledger's summary queries ----

\* the tuples of EnterInputs that enter_trade accepts
ValidEnterInputs ==
    {a \in EnterInputs : ParamError(a[1], a[2], a[3], a[4]) = None}

NextStats ==
    /\ UNCHANGED <<rm_vars, td_vars, mn_vars>>
    /\ \/ \E trade_id \in TradeIds, a \in ValidEnterInputs :
             enter_trade(trade_id, a[1], a[2], a[3], a[4])
       \/ \E trade_id \in TradeIds : exit_trade_at_target(trade_id)
       \/ \E trade_id \in TradeIds : exit_trade_at_stop_loss(trade_id)
       \/ \E trade_id \in TradeIds, p \in PriceInputs, reason \in ReasonInputs :
             exit_trade_at_price(trade_id, p, reason)
       \/ get_win_rate
       \/ get_statistics

SpecStats == InitTrader /\ [][NextStats]_vars

\* ---- the ledger's collections in the hands of a caller ----

\* one trade is enough to fill each of the ledger's three collections
SnapIds == {"T1"}

NextSnap ==
    /\ UNCHANGED <<rm_vars, trade, trade_last, mn_vars>>
    /\ \/ /\ \E trade_id \in SnapIds :
                enter_trade(trade_id, BaseArgs[1], BaseArgs[2], BaseArgs[3],
                            BaseArgs[4])
          /\ UNCHANGED <<snaps, snap_last>>
       \/ /\ \E trade_id \in SnapIds : exit_trade_at_target(trade_id)
          /\ UNCHANGED <<snaps, snap_last>>
       \/ get_open_trades
       \/ get_closed_trades
       \/ get_all_trades
       \/ \E i \in 1..Len(snaps), ref \in 1..Len(heap) : ListAppend(i, ref)
       \/ \E i \in 1..Len(snaps) : ListPop(i)

SpecSnap == InitTrader /\ [][NextSnap]_vars

\* ---- main.py ----

InitMain ==
    /\ RiskManager__init__(-MaxLimit)
    /\ PaperTrader__init__
    /\ NoTrade
    /\ config \in Configs
    /\ rm = main_RiskManager__init__
    /\ row = 0
    /\ main_last = [op |-> "__init__", day |-> 0, close |-> 0,
                    signal |-> None, out |-> None]

NextMain ==
    /\ UNCHANGED <<rm_vars, pt_vars, td_vars>>
    /\ \/ \E day \in 1..MaxRows, close_px \in CloseInputs,
             ema \in CloseInputs, vwap \in CloseInputs :
             MainLoop(day, close_px, ema, vwap)
       \/ final_summary

SpecMain == InitMain /\ [][NextMain]_vars

\* ---- a Trade object and the methods called on it directly ----

\* the parameters PaperTrader.enter_trade lets through to Trade.__init__
TradeArgs ==
    {a \in PriceInputs \X PriceInputs \X PriceInputs \X QtyInputs :
        ParamError(a[1], a[2], a[3], a[4]) = None}

TradeCloseAtTarget ==
    /\ trade' = close_at_target(trade)
    /\ trade_last' = [op |-> "close_at_target", args |-> None]

TradeCloseAtStopLoss ==
    /\ trade' = close_at_stop_loss(trade)
    /\ trade_last' = [op |-> "close_at_stop_loss", args |-> None]

TradeCloseAtPrice(exit_price, reason) ==
    /\ trade' = close_at_price(trade, exit_price, reason)
    /\ trade_last' = [op |-> "close_at_price", args |-> <<exit_price, reason>>]

InitTrade ==
    /\ RiskManager__init__(-MaxLimit)
    /\ PaperTrader__init__
    /\ \E trade_id \in TradeIds, a \in TradeArgs :
          trade = Trade__init__(trade_id, a[1], a[2], a[3], a[4])
    /\ trade_last = [op |-> "__init__", args |-> None]
    /\ snaps = <<>>
    /\ snap_last = NoListCall
    /\ NoMain

NextTrade ==
    /\ UNCHANGED <<rm_vars, pt_vars, snaps, snap_last, mn_vars>>
    /\ \/ TradeCloseAtTarget
       \/ TradeCloseAtStopLoss
       \/ \E p \in PriceInputs, reason \in TradeReasons :
             TradeCloseAtPrice(p, reason)

SpecTrade == InitTrade /\ [][NextTrade]_vars

\* -----------------------------------------------------------------
\* RiskManager: properties
\* -----------------------------------------------------------------

\* the step is a call of the RiskManager method op (Tick is the only
\* action that moves the clock, every method call records itself in rm_last)
RmCalled(op) == rm_state = "ok" /\ today' = today /\ rm_last'.op = op

RmReaders == {"is_trading_allowed", "get_daily_pnl", "get_remaining_loss_budget",
              "get_trade_history", "get_status"}

SameDate == today = session_date

\* C2: once trading_allowed is false it stays false through every update_pnl,
\* is_trading_allowed and query call made on the same session date; it turns
\* true again only in a reset_daily_pnl call or in the rollover of a call
\* that found the date changed (which moves session_date).
C2_LatchOneWay ==
    [][ /\ (rm_state = "ok" /\ ~trading_allowed /\ SameDate /\ today' = today
             /\ rm_last'.op \in RmReaders \cup {"update_pnl"})
            => ~trading_allowed'
        /\ (rm_state = "ok" /\ ~trading_allowed /\ trading_allowed')
            => \/ RmCalled("reset_daily_pnl")
               \/ (~SameDate /\ today' = today /\ session_date' = today)
      ]_vars

C2_Witness ==
    /\ rm_state = "ok"
    /\ ~trading_allowed
    /\ SameDate
    /\ rm_last.op = "is_trading_allowed"
    /\ rm_last.ret = FALSE

\* C3: update_pnl(pnl) called while trading is allowed and
\* daily_pnl + pnl < max_daily_loss returns False and leaves daily_pnl, the
\* latch (still true) and the trade log unchanged.
C3_OvershootRejected ==
    [][ (RmCalled("update_pnl") /\ SameDate /\ trading_allowed
         /\ daily_pnl + rm_last'.pnl < max_daily_loss)
        => /\ rm_last'.ret = FALSE
           /\ daily_pnl' = daily_pnl
           /\ trading_allowed' = TRUE
           /\ rm_trades' = rm_trades
      ]_vars

\* an overshooting loss was rejected after an accepted loss, and a smaller
\* loss still fits the remaining budget
C3_Witness ==
    /\ rm_state = "ok"
    /\ rm_last.op = "update_pnl"
    /\ rm_last.ret = FALSE
    /\ trading_allowed
    /\ daily_pnl < 0
    /\ daily_pnl + rm_last.pnl < max_daily_loss
    /\ daily_pnl - 1 >= max_daily_loss

\* C4: update_pnl called on the same session date while the latch is false
\* returns False for every pnl, positive ones included, and leaves daily_pnl
\* and the trade log unchanged.
C4_LatchedRejectsAll ==
    [][ (RmCalled("update_pnl") /\ SameDate /\ ~trading_allowed)
        => /\ rm_last'.ret = FALSE
           /\ daily_pnl' = daily_pnl
           /\ rm_trades' = rm_trades
      ]_vars

\* a profit was offered to a latched gate and refused
C4_Witness ==
    /\ rm_state = "ok"
    /\ ~trading_allowed
    /\ SameDate
    /\ rm_last.op = "update_pnl"
    /\ rm_last.pnl > 0
    /\ rm_last.ret = FALSE

\* C5: update_pnl(pnl) called while trading is allowed and
\* daily_pnl + pnl >= max_daily_loss returns True, sets daily_pnl to the new
\* total and appends one log entry; when the new daily_pnl <= max_daily_loss
\* the latch is false after that same call.
C5_AcceptThenLatch ==
    [][ (RmCalled("update_pnl") /\ SameDate /\ trading_allowed
         /\ daily_pnl + rm_last'.pnl >= max_daily_loss)
        => /\ rm_last'.ret = TRUE
           /\ daily_pnl' = daily_pnl + rm_last'.pnl
           /\ Len(rm_trades') = Len(rm_trades) + 1
           /\ SubSeq(rm_trades', 1, Len(rm_trades)) = rm_trades
           /\ rm_trades'[Len(rm_trades')].pnl = rm_last'.pnl
           /\ trading_allowed' = (daily_pnl' > max_daily_loss)
      ]_vars

\* the update that landed on the limit was accepted, logged, and latched
C5_Witness ==
    /\ rm_state = "ok"
    /\ rm_last.op = "update_pnl"
    /\ rm_last.ret = TRUE
    /\ daily_pnl = max_daily_loss
    /\ ~trading_allowed
    /\ Len(rm_trades) >= 2
    /\ rm_trades[Len(rm_trades)].pnl = rm_last.pnl

\* C6: daily_pnl is the sum of the pnl of the update_pnl calls that returned
\* True since the last rollover; the log has one entry per accepted call in
\* call order; each entry's cumulative_pnl is the sum of the pnl fields up to
\* and including it, and the last one equals daily_pnl.
C6_RunningSum ==
    rm_state = "ok" =>
        /\ daily_pnl = SumSeq(accepted)
        /\ Len(rm_trades) = Len(accepted)
        /\ \A i \in 1..Len(rm_trades) :
              /\ rm_trades[i].pnl = accepted[i]
              /\ rm_trades[i].cumulative_pnl =
                    SumSeq([k \in 1..i |-> rm_trades[k].pnl])
        /\ rm_trades # <<>> => rm_trades[Len(rm_trades)].cumulative_pnl = daily_pnl

\* two accepted updates are logged and a third call was refused
C6_Witness ==
    /\ rm_state = "ok"
    /\ Len(rm_trades) >= 2
    /\ rm_trades[1].pnl # 0
    /\ rm_trades[2].pnl # 0
    /\ rm_last.op = "update_pnl"
    /\ rm_last.ret = FALSE

\* -----------------------------------------------------------------
\* PaperTrader: properties
\* -----------------------------------------------------------------

\* the step is a call of the PaperTrader method op
PtCalled(op) == pt_last'.op = op

ExitOps == {"exit_trade_at_target", "exit_trade_at_stop_loss",
            "exit_trade_at_price"}

LedgerUnchanged ==
    /\ heap' = heap
    /\ trades' = trades
    /\ open_trades' = open_trades
    /\ closed_trades' = closed_trades
    /\ total_pnl' = total_pnl

ClosedIds == {heap[closed_trades[i]].trade_id : i \in 1..Len(closed_trades)}

\* C1: enter_trade with a trade ID that was ever used before (currently open,
\* or already closed) raises the identity error and leaves the all-trades
\* sequence, the open mapping, the closed sequence and total_pnl unchanged.
C1_ReusedIdRejected ==
    [][ (PtCalled("enter_trade") /\ pt_last'.trade_id \in used_ids)
        => /\ pt_last'.ret = Raise("ValueError", "Trade with ID already exists")
           /\ LedgerUnchanged
      ]_vars

\* the ID of a closed trade was offered again, with valid parameters, and
\* refused
C1_Witness ==
    /\ pt_last.op = "enter_trade"
    /\ pt_last.trade_id \in used_ids
    /\ pt_last.trade_id \notin DOMAIN open_trades
    /\ pt_last.args = BaseArgs
    /\ pt_last.ret[1] = "ValueError"
    /\ Len(closed_trades) = 1

\* C7: each trade ID ever successfully entered appears exactly once in the
\* all-trades sequence and in exactly one of the open mapping or the closed
\* sequence, so len(trades) == len(open_trades) + len(closed_trades).
C7_OpenXorClosed ==
    /\ \A id \in used_ids :
         /\ Cardinality({i \in 1..Len(trades) : heap[trades[i]].trade_id = id}) = 1
         /\ Cardinality({i \in 1..Len(closed_trades) :
                           heap[closed_trades[i]].trade_id = id})
              = (IF id \in DOMAIN open_trades THEN 0 ELSE 1)
    /\ \A id \in DOMAIN open_trades :
         id \in used_ids /\ heap[open_trades[id]].trade_id = id
    /\ \A i \in 1..Len(trades) : heap[trades[i]].trade_id \in used_ids
    /\ ClosedIds \subseteq used_ids
    /\ Len(trades) = Cardinality(DOMAIN open_trades) + Len(closed_trades)

\* one trade is open, another was closed, and the closed one was exited again
C7_Witness ==
    /\ Cardinality(DOMAIN open_trades) = 1
    /\ Len(closed_trades) = 1
    /\ pt_last.op \in ExitOps
    /\ pt_last.trade_id \in ClosedIds
    /\ pt_last.ret = Return(FALSE)

\* the claim's condition on the parameters of enter_trade
C8_Invalid(a) ==
    \/ a[1] <= 0 \/ a[2] <= 0 \/ a[3] <= 0 \/ a[4] <= 0
    \/ a[2] >= a[1]
    \/ a[3] <= a[1]

\* C8: enter_trade with a fresh ID raises and leaves the ledger unchanged
\* whenever entry_price <= 0, stop_loss <= 0, target_price <= 0,
\* quantity <= 0, stop_loss >= entry_price or target_price <= entry_price;
\* otherwise it adds exactly one OPEN trade to the all-trades sequence and to
\* the open mapping.  Hence every trade in the ledger has
\* 0 < stop_loss < entry_price < target_price and quantity > 0.
C8_ValidatedEntry ==
    [][ /\ (PtCalled("enter_trade") /\ pt_last'.trade_id \notin used_ids)
           => LET a == pt_last'.args
                  id == pt_last'.trade_id
              IN IF C8_Invalid(a)
                 THEN pt_last'.ret[1] = "ValueError" /\ LedgerUnchanged
                 ELSE /\ pt_last'.ret = Return(Len(heap'))
                      /\ Len(trades') = Len(trades) + 1
                      /\ SubSeq(trades', 1, Len(trades)) = trades
                      /\ DOMAIN open_trades' = DOMAIN open_trades \cup {id}
                      /\ \A k \in DOMAIN open_trades :
                           open_trades'[k] = open_trades[k]
                      /\ open_trades'[id] = trades'[Len(trades')]
                      /\ LET t == heap'[open_trades'[id]] IN
                           /\ t.trade_id = id
                           /\ t.status = OPEN
                           /\ <<t.entry_price, t.stop_loss, t.target_price,
                                t.quantity>> = a
                      /\ \A r \in 1..Len(heap) : heap'[r] = heap[r]
                      /\ closed_trades' = closed_trades
                      /\ total_pnl' = total_pnl
        /\ \A i \in 1..Len(trades') :
             LET t == heap'[trades'[i]] IN
               /\ 0 < t.stop_loss
               /\ t.stop_loss < t.entry_price
               /\ t.entry_price < t.target_price
               /\ t.quantity > 0
      ]_vars

\* with one trade in the ledger, a fresh ID was refused because its stop
\* equals its entry price
C8_Witness ==
    /\ pt_last.op = "enter_trade"
    /\ pt_last.trade_id \notin used_ids
    /\ pt_last.args[1] > 0
    /\ pt_last.args[2] = pt_last.args[1]
    /\ pt_last.ret[1] = "ValueError"
    /\ Len(trades) = 1

\* C9: the exit_trade_* methods called with an ID that is not currently open
\* (never entered, or already closed) return False without raising and leave
\* the ledger unchanged: total_pnl and the closed trade stay as they are.
C9_ExitNotOpenIsNoOp ==
    [][ (\E op \in ExitOps : PtCalled(op))
         /\ pt_last'.trade_id \notin DOMAIN open_trades
        => pt_last'.ret = Return(FALSE) /\ LedgerUnchanged
      ]_vars

\* a trade closed with a non-zero PnL was exited a second time
C9_Witness ==
    /\ pt_last.op \in ExitOps
    /\ pt_last.ret = Return(FALSE)
    /\ pt_last.trade_id \in ClosedIds
    /\ total_pnl # 0
    /\ Len(closed_trades) = 1

ClosedPnl == [i \in 1..Len(closed_trades) |-> heap[closed_trades[i]].pnl[1]]

\* C10: a successful exit_trade_* on an open ID removes the trade from the
\* open mapping, appends it to the end of the closed sequence and adds its
\* realized PnL to the running total; total_pnl always equals the sum of pnl
\* over the closed sequence.
C10_TotalIsClosedSum ==
    [][ /\ ((\E op \in ExitOps : PtCalled(op))
            /\ pt_last'.trade_id \in DOMAIN open_trades)
           => LET id == pt_last'.trade_id
                  ref == open_trades[id]
              IN /\ pt_last'.ret = Return(TRUE)
                 /\ DOMAIN open_trades' = DOMAIN open_trades \ {id}
                 /\ \A k \in DOMAIN open_trades' :
                      open_trades'[k] = open_trades[k]
                 /\ closed_trades' = Append(closed_trades, ref)
                 /\ heap'[ref].pnl # Unset
                 /\ total_pnl' = total_pnl + heap'[ref].pnl[1]
                 /\ trades' = trades
        /\ total_pnl' = SumSeq(ClosedPnl')
        /\ PtCalled("get_total_pnl") => pt_last'.ret = Return(SumSeq(ClosedPnl))
      ]_vars

\* two trades closed in the reverse of their entry order, one at a profit and
\* one at a loss
C10_Witness ==
    /\ trades = <<1, 2>>
    /\ closed_trades = <<2, 1>>
    /\ heap[1].pnl[1] > 0
    /\ heap[2].pnl[1] < 0
    /\ total_pnl = heap[1].pnl[1] + heap[2].pnl[1]
    /\ pt_last.op \in ExitOps


\* -----------------------------------------------------------------
\* Trade: properties
\* -----------------------------------------------------------------

\* C11: a Trade's status, once it has left OPEN, never changes again: no
\* later close_at_target, close_at_stop_loss or close_at_price changes the
\* status, exit price, exit reason or pnl of a closed trade.
C11_ClosedIsTerminal ==
    [][ trade.status # OPEN
        => /\ trade'.status = trade.status
           /\ trade'.exit_price = trade.exit_price
           /\ trade'.exit_reason = trade.exit_reason
           /\ trade'.pnl = trade.pnl
      ]_vars

\* the exit fields of a Trade
ExitFieldsUnset(t) ==
    /\ t.exit_price = Unset
    /\ t.exit_time = None
    /\ t.exit_reason = None
    /\ t.pnl = Unset
    /\ t.pnl_percent = Unset

ExitFieldsSet(t) ==
    /\ t.exit_price # Unset
    /\ t.exit_time # None
    /\ t.exit_reason # None
    /\ t.pnl # Unset
    /\ t.pnl_percent # Unset

\* C12: while status = OPEN, exit_price, exit_time, exit_reason, pnl and
\* pnl_percent are all unset; once status is not OPEN they are all set; they
\* become set in the very transition that changes the status.
C12_ExitFieldsAtomic ==
    /\ [](/\ (trade.status = OPEN) => ExitFieldsUnset(trade)
          /\ (trade.status # OPEN) => ExitFieldsSet(trade))
    /\ [][ /\ (trade.status = OPEN /\ trade'.status # OPEN)
                => (ExitFieldsUnset(trade) /\ ExitFieldsSet(trade'))
           /\ (ExitFieldsUnset(trade) /\ ~ExitFieldsUnset(trade'))
                => (trade.status = OPEN /\ trade'.status # OPEN)
         ]_vars

\* an open trade was closed by close_at_price between its stop and target
C12_Witness ==
    /\ trade_last.op = "close_at_price"
    /\ trade.status = CLOSED_LOSS
    /\ ExitFieldsSet(trade)

\* C13: exit_trade_at_price(id, p) on an open trade (and so close_at_price(p)
\* on the Trade) sets the exit price to p and the status by thresholds only:
\* p >= target gives CLOSED_PROFIT, p <= stop-loss gives CLOSED_STOPPED, and
\* every p strictly between them gives CLOSED_LOSS, also when p is above the
\* entry price and the realized pnl is positive.
C13_StatusByThresholds ==
    [][ (PtCalled("exit_trade_at_price")
         /\ pt_last'.trade_id \in DOMAIN open_trades)
        => LET ref == open_trades[pt_last'.trade_id]
               p == pt_last'.args[1]
               before == heap[ref]
               after == heap'[ref]
           IN /\ before.status = OPEN
              /\ after.exit_price = Float(p)
              /\ after.exit_reason = pt_last'.args[2]
              /\ (p >= before.target_price) => after.status = CLOSED_PROFIT
              /\ (p <= before.stop_loss) => after.status = CLOSED_STOPPED
              /\ (before.stop_loss < p /\ p < before.target_price)
                   => after.status = CLOSED_LOSS
              /\ after.status \in {CLOSED_PROFIT, CLOSED_STOPPED, CLOSED_LOSS}
      ]_vars

\* a trade exited between its stop and its target, above its entry price:
\* CLOSED_LOSS with a positive pnl
C13_Witness ==
    /\ pt_last.op = "exit_trade_at_price"
    /\ pt_last.ret = Return(TRUE)
    /\ \E i \in 1..Len(closed_trades) :
          LET t == heap[closed_trades[i]] IN
          /\ t.trade_id = pt_last.trade_id
          /\ t.exit_price = Float(pt_last.args[1])
          /\ t.exit_price[1] > t.entry_price
          /\ t.exit_price[1] < t.target_price
          /\ t.status = CLOSED_LOSS
          /\ t.pnl[1] > 0

\* C14: for every closed trade pnl = (exit_price - entry_price) * quantity,
\* where exit_price is the target price after close_at_target, the stop-loss
\* price after close_at_stop_loss and the given price after close_at_price.
C14_PnlExact ==
    /\ []((trade.status # OPEN)
          => trade.pnl = Float((trade.exit_price[1] - trade.entry_price)
                               * trade.quantity))
    /\ [][ /\ (trade_last'.op = "close_at_target")
                => trade'.exit_price = Float(trade.target_price)
           /\ (trade_last'.op = "close_at_stop_loss")
                => trade'.exit_price = Float(trade.stop_loss)
           /\ (trade_last'.op = "close_at_price")
                => trade'.exit_price = Float(trade_last'.args[1])
           /\ trade'.entry_price = trade.entry_price
           /\ trade'.quantity = trade.quantity
         ]_vars

\* a trade of quantity MaxQty closed at its target: the pnl is the price move
\* times the quantity
C14_Witness ==
    /\ trade_last.op = "close_at_target"
    /\ trade.status = CLOSED_PROFIT
    /\ trade.quantity = MaxQty
    /\ trade.exit_price = Float(trade.target_price)
    /\ trade.pnl = Float((trade.target_price - trade.entry_price) * MaxQty)
    /\ trade.pnl[1] > trade.target_price - trade.entry_price

\* -----------------------------------------------------------------
\* PaperTrader: summary queries
\* -----------------------------------------------------------------

ClosedTrades == {heap[closed_trades[i]] : i \in 1..Len(closed_trades)}

\* the sum of pnl over the closed trades that satisfy the sign test
RECURSIVE SumPnl(_)
SumPnl(refs) ==
    IF refs = {} THEN 0
    ELSE LET r == CHOOSE x \in refs : TRUE IN
         heap[r].pnl[1] + SumPnl(refs \ {r})

ClosedRefs == {closed_trades[i] : i \in 1..Len(closed_trades)}
GrossProfit == SumPnl({r \in ClosedRefs : heap[r].pnl[1] > 0})
GrossLoss == -SumPnl({r \in ClosedRefs : heap[r].pnl[1] < 0})

\* C15: get_statistics reports profit_factor = (sum of positive closed pnl)
\* / |sum of negative closed pnl| when at least one closed trade lost, and
\* profit_factor = 0 whenever the gross loss is 0, even if every closed trade
\* is a winner.
C15_ProfitFactor ==
    [][ PtCalled("get_statistics")
        => LET pf == pt_last'.ret[2].profit_factor IN
           /\ (\E r \in ClosedRefs : heap[r].pnl[1] < 0)
                => /\ GrossLoss > 0
                   /\ pf[1] * GrossLoss = GrossProfit * pf[2]
                   /\ pf[2] > 0
           /\ (GrossLoss = 0) => pf = Zero
      ]_vars

\* get_statistics on a ledger whose closed trades are all winners: profit
\* factor 0
C15_Witness ==
    /\ pt_last.op = "get_statistics"
    /\ Len(closed_trades) = 2
    /\ \A r \in ClosedRefs : heap[r].pnl[1] > 0
    /\ pt_last.ret[2].profit_factor = Zero

\* get_statistics on a ledger with a winner and a loser: the ratio of the two
C15_WitnessRatio ==
    /\ pt_last.op = "get_statistics"
    /\ GrossProfit = 2
    /\ GrossLoss = 1
    /\ pt_last.ret[2].profit_factor = <<2, 1>>

\* C16: get_win_rate returns 0 when there are no closed trades and otherwise
\* 100 * (number of closed trades with pnl > 0) / (number of closed trades);
\* open trades and closed trades with pnl exactly 0 do not count as wins.
C16_WinRate ==
    [][ PtCalled("get_win_rate")
        => LET win_rate == pt_last'.ret[2]
               closed == Len(closed_trades)
               wins == Cardinality({r \in ClosedRefs : heap[r].pnl[1] > 0})
           IN /\ LedgerUnchanged
              /\ (closed = 0) => win_rate = Zero
              /\ (closed > 0) => /\ win_rate[2] > 0
                                 /\ win_rate[1] * closed
                                      = 100 * wins * win_rate[2]
      ]_vars

\* get_win_rate with one winner and one trade closed at its entry price: 50
C16_Witness ==
    /\ pt_last.op = "get_win_rate"
    /\ Len(closed_trades) = 2
    /\ \E r \in ClosedRefs : heap[r].pnl[1] > 0
    /\ \E r \in ClosedRefs : heap[r].pnl[1] = 0
    /\ pt_last.ret = Return(<<50, 1>>)

\* -----------------------------------------------------------------
\* PaperTrader: returned collections
\* -----------------------------------------------------------------

\* the items, after the step, of a list object l of the state after the step
ContentsAfter(l) ==
    CASE l.owner = None -> l.items
      [] l.owner = "trades" -> trades'
      [] l.owner = "closed_trades" -> closed_trades'
      [] l.owner = "open_trades" -> OpenValues'

\* the step is a call of one of the three collection getters
GetterCalled == Len(snaps') = Len(snaps) + 1

\* the step is the caller changing a list it was given
CallerMutated ==
    /\ Len(snaps') = Len(snaps)
    /\ pt_last' = pt_last
    /\ \/ snaps' # snaps
       \/ snap_last' # snap_last
       \/ ~LedgerUnchanged

\* C17: get_open_trades, get_closed_trades and get_all_trades are read-only
\* snapshots: they change no ledger state, two calls with no mutation in
\* between return equal collections, and adding or removing elements in a
\* returned collection changes neither the ledger's open / closed / all-trades
\* contents nor a collection returned by another call.
C17_DefensiveCopies ==
    [][ /\ GetterCalled
           => LET new == snaps'[Len(snaps')] IN
              /\ LedgerUnchanged
              /\ new.op = "get_open_trades"
                   => ContentsAfter(new.list) = OpenValues
              /\ new.op = "get_closed_trades"
                   => ContentsAfter(new.list) = closed_trades
              /\ new.op = "get_all_trades"
                   => ContentsAfter(new.list) = trades
              /\ \A j \in 1..Len(snaps) :
                   (/\ snaps[j].op = new.op
                    /\ snaps[j].at = LedgerVersion
                    /\ ~snaps[j].touched)
                   => Contents(snaps[j].list) = ContentsAfter(new.list)
        /\ CallerMutated
           => /\ LedgerUnchanged
              /\ \A j \in 1..Len(snaps) :
                   (j # snap_last'.args[1])
                   => ContentsAfter(snaps'[j].list) = Contents(snaps[j].list)
      ]_vars

\* the caller holds two lists returned by get_closed_trades and has popped
\* the only trade off the first: the second list and the ledger still hold it
C17_Witness ==
    /\ Len(snaps) = 2
    /\ snaps[1].op = "get_closed_trades"
    /\ snaps[2].op = "get_closed_trades"
    /\ snap_last.op = "pop"
    /\ snap_last.args = <<1>>
    /\ Len(closed_trades) = 1
    /\ Contents(snaps[1].list) = <<>>
    /\ Contents(snaps[2].list) = closed_trades

\* -----------------------------------------------------------------
\* PaperTrader: position count
\* -----------------------------------------------------------------

\* C18: the ledger enforces the single-open-position constraint: in every
\* reachable state the open mapping holds at most one trade, so enter_trade
\* with a fresh, valid ID while another trade is open does not leave two
\* trades open at once.
C18_SingleOpenPosition == Cardinality(DOMAIN open_trades) <= 1

\* -----------------------------------------------------------------
\* main.py: properties
\* -----------------------------------------------------------------

\* the step is one iteration of the main loop
LoopStep == main_last'.op = "loop" /\ row' = row + 1

\* the row of the step is the first of a new day
NewDay == rm.current_day # <<main_last'.day>>

\* daily_pnl has reached the loss limit capital * max_daily_loss
LossLimitReached ==
    rm.daily_pnl * 100 <= -(config.trading_capital * config.max_daily_loss)

\* C19: in the loop of main.py a position is entered at a step only if no
\* position is open when the trading logic runs, the step's signal is BUY and
\* can_trade() is true; once the day's PnL has reached the daily loss limit,
\* every later BUY of that day is skipped without error and no position is
\* entered until the next day rollover.
C19_EntryGated ==
    [][ LoopStep
        => LET position == IF NewDay THEN None ELSE rm.open_position
               pnl == IF NewDay THEN 0 ELSE rm.daily_pnl
               limit == config.trading_capital * config.max_daily_loss
               entered == main_last'.out = "ENTER"
           IN /\ entered
                   => /\ position = None
                      /\ main_last'.signal = "BUY"
                      /\ pnl * 100 > -limit
                      /\ rm'.open_position = "LONG"
                      /\ rm'.entry_price = Float(main_last'.close)
              /\ (rm'.open_position = "LONG" /\ position = None) => entered
              /\ (LossLimitReached /\ ~NewDay)
                   => /\ ~entered
                      /\ rm' = rm
                      /\ rm.open_position = None
                      /\ (main_last'.signal = "BUY")
                           => main_last'.out = "BLOCKED"
      ]_vars

\* a BUY skipped on a day whose PnL sits exactly on the loss limit
C19_Witness ==
    /\ main_last.op = "loop"
    /\ main_last.signal = "BUY"
    /\ main_last.out = "BLOCKED"
    /\ rm.daily_pnl * 100 = -(config.trading_capital * config.max_daily_loss)
    /\ rm.open_position = None
    /\ Len(rm.trade_log) = 1
    /\ rm.trade_log[1].Day = main_last.day

\* the step appended the row of an exit with the given reason to the log
Exited(reason) ==
    /\ rm'.open_position = None
    /\ rm'.entry_price = Unset
    /\ Len(rm'.trade_log) = Len(rm.trade_log) + 1
    /\ LET logged == rm'.trade_log[Len(rm'.trade_log)] IN
       /\ logged.Reason = reason
       /\ logged.EntryPrice = rm.entry_price[1]
       /\ logged.ExitPrice = main_last'.close

\* C20: at every step of the loop where a position is open before the step:
\* if price >= entry * (1 + target fraction) the position is closed with the
\* target reason; else if price <= entry * (1 - stop fraction) it is closed
\* with the stop-loss reason; otherwise the position, its entry price and the
\* daily PnL are unchanged.  A step never both exits and enters.
C20_ExitOrHold ==
    [][ (LoopStep /\ rm.open_position = "LONG")
        => LET price == main_last'.close
               entry == rm.entry_price[1]
           IN /\ IF price * 100 >= entry * (100 + config.target)
                 THEN Exited("TARGET HIT")
                 ELSE IF price * 100 <= entry * (100 - config.stop_loss)
                 THEN Exited("STOP LOSS")
                 ELSE /\ rm'.open_position = "LONG"
                      /\ rm'.entry_price = rm.entry_price
                      /\ rm'.daily_pnl = rm.daily_pnl
              /\ main_last'.out # "ENTER"
      ]_vars

\* the trade-log row the step appended, if it appended one
ExitLogged == Len(rm'.trade_log) = Len(rm.trade_log) + 1

\* C21: when the loop exits a position at target the exit price is the
\* trade's target price, and when it exits at stop-loss the exit price is its
\* stop-loss price, so the PnL recorded for the exit is (target - entry) or
\* (stop - entry) times the quantity (one unit in main.py), whatever the
\* distance of the current price beyond the threshold.
C21_ExitAtThresholdPrice ==
    [][ (LoopStep /\ ExitLogged)
        => LET logged == rm'.trade_log[Len(rm'.trade_log)] IN
           /\ (logged.Reason = "TARGET HIT")
                => /\ logged.ExitPrice * 100
                        = logged.EntryPrice * (100 + config.target)
                   /\ logged.TradePnL * 100 = logged.EntryPrice * config.target
           /\ (logged.Reason = "STOP LOSS")
                => /\ logged.ExitPrice * 100
                        = logged.EntryPrice * (100 - config.stop_loss)
                   /\ logged.TradePnL * 100
                        = -(logged.EntryPrice * config.stop_loss)
      ]_vars

\* the TradePnL column of the trade log
LoggedPnl(r) == [k \in 1..Len(r.trade_log) |-> r.trade_log[k].TradePnL]

\* C22: on the first row whose calendar date differs from the previously seen
\* date, and before any entry or exit of that step, the finished day's daily
\* PnL is carried into the cumulative total and the daily PnL is reset to 0;
\* after the final summary the cumulative total equals the sum of TradePnL
\* over all trade-log rows, with one row per closed trade in closure order.
C22_DayCarry ==
    /\ []((main_last.op = "final_summary")
          => rm.total_pnl = SumSeq(LoggedPnl(rm)))
    /\ [][ /\ (LoopStep /\ NewDay)
                => /\ rm'.total_pnl = rm.total_pnl + rm.daily_pnl
                   /\ rm'.daily_pnl = 0
                   /\ rm'.current_day = <<main_last'.day>>
                   /\ rm'.trade_log = rm.trade_log
                   /\ (main_last'.signal = "BUY") => main_last'.out = "ENTER"
           /\ (LoopStep /\ ~NewDay)
                => /\ rm'.total_pnl = rm.total_pnl
                   /\ rm'.current_day = rm.current_day
           /\ (LoopStep /\ main_last'.out \in {"TARGET HIT", "STOP LOSS"})
                => /\ ExitLogged
                   /\ SubSeq(rm'.trade_log, 1, Len(rm.trade_log)) = rm.trade_log
                   /\ rm'.daily_pnl = rm.daily_pnl
                        + rm'.trade_log[Len(rm'.trade_log)].TradePnL
           /\ (LoopStep /\ main_last'.out \notin {"TARGET HIT", "STOP LOSS"})
                => rm'.trade_log = rm.trade_log
           /\ (main_last'.op = "final_summary" /\ main_last.op = "loop")
                => /\ rm'.total_pnl = rm.total_pnl + rm.daily_pnl
                   /\ rm'.trade_log = rm.trade_log
         ]_vars

\* the final summary after a losing exit on each of two days
C22_Witness ==
    /\ main_last.op = "final_summary"
    /\ Len(rm.trade_log) = 2
    /\ rm.trade_log[1].Day # rm.trade_log[2].Day
    /\ rm.trade_log[1].TradePnL < 0
    /\ rm.daily_pnl = rm.trade_log[2].TradePnL
    /\ rm.total_pnl = rm.trade_log[1].TradePnL + rm.trade_log[2].TradePnL

\* -----------------------------------------------------------------
\* RiskManager: rollover, construction, budget, limit
\* -----------------------------------------------------------------

\* the step is a call of a RiskManager method that only reads
ReaderCalled == \E op \in RmReaders : RmCalled(op)

\* C23: every public RiskManager operation (is_trading_allowed, update_pnl,
\* get_daily_pnl, get_remaining_loss_budget, get_trade_history, get_status)
\* performs the day-rollover check first: if the current date differs from
\* session_date, daily_pnl is reset to 0, the latch to true, the log to empty
\* and session_date to the current date before the operation's own logic
\* runs; after a latched day the first is_trading_allowed of a new date
\* returns true, and a rollover happens at most once per date change.
C23_RolloverFirst ==
    [][ /\ (ReaderCalled /\ ~SameDate)
             => /\ session_date' = today
                /\ daily_pnl' = 0
                /\ trading_allowed'
                /\ rm_trades' = <<>>
        /\ (RmCalled("is_trading_allowed") /\ ~SameDate)
             => rm_last'.ret = TRUE
        /\ (RmCalled("get_daily_pnl") /\ ~SameDate)
             => rm_last'.ret = 0
        /\ (RmCalled("get_remaining_loss_budget") /\ ~SameDate)
             => rm_last'.ret = max_daily_loss
        /\ (RmCalled("get_trade_history") /\ ~SameDate)
             => rm_last'.ret = <<>>
        /\ (RmCalled("get_status") /\ ~SameDate)
             => /\ rm_last'.ret.trading_allowed
                /\ rm_last'.ret.daily_pnl = 0
                /\ rm_last'.ret.num_trades = 0
                /\ rm_last'.ret.session_date = today
        /\ (RmCalled("update_pnl") /\ ~SameDate)
             => /\ session_date' = today
                /\ rm_last'.ret = (rm_last'.pnl >= max_daily_loss)
                /\ daily_pnl' = IF rm_last'.ret THEN rm_last'.pnl ELSE 0
                /\ Len(rm_trades') = IF rm_last'.ret THEN 1 ELSE 0
                /\ trading_allowed'
                     = ~(rm_last'.ret /\ rm_last'.pnl = max_daily_loss)
        /\ ((ReaderCalled \/ RmCalled("update_pnl")) /\ SameDate)
             => session_date' = session_date
        /\ (ReaderCalled /\ SameDate)
             => /\ daily_pnl' = daily_pnl
                /\ trading_allowed' = trading_allowed
                /\ rm_trades' = rm_trades
      ]_vars

\* is_trading_allowed has rolled the gate over to a later date and returned
\* True
C23_Witness ==
    /\ rm_state = "ok"
    /\ rm_last.op = "is_trading_allowed"
    /\ rm_last.ret = TRUE
    /\ session_date = today
    /\ today > 1
    /\ daily_pnl = 0
    /\ rm_trades = <<>>

\* C24: constructing a RiskManager with max_daily_loss >= 0 (zero or
\* positive) fails with an error and yields no usable gate; with
\* max_daily_loss < 0 it starts with daily_pnl = 0, trading allowed and an
\* empty trade log.
C24_Construction ==
    /\ []((rm_last.op = "__init__")
          => IF rm_last.pnl >= 0
             THEN /\ rm_state = "ValueError"
                  /\ max_daily_loss = None
                  /\ trading_allowed = None
             ELSE /\ rm_state = "ok"
                  /\ max_daily_loss = rm_last.pnl
                  /\ daily_pnl = 0
                  /\ trading_allowed = TRUE
                  /\ rm_trades = <<>>)
    /\ []((rm_state = "ValueError") => rm_last.op = "__init__")
    /\ [][rm_state' = rm_state /\ max_daily_loss' = max_daily_loss]_vars

\* the constructor was given a limit of exactly zero and raised
C24_Witness ==
    /\ rm_last.op = "__init__"
    /\ rm_last.pnl = 0
    /\ rm_state = "ValueError"

\* the step is a get_remaining_loss_budget call that returned
\* max_daily_loss - daily_pnl and, within one session date, changed nothing
BudgetReturned ==
    /\ rm_last'.ret = max_daily_loss - daily_pnl'
    /\ SameDate => /\ daily_pnl' = daily_pnl
                   /\ trading_allowed' = trading_allowed
                   /\ rm_trades' = rm_trades
                   /\ session_date' = session_date

C26_NeverBelowLimit ==
    /\ []((rm_state = "ok")
          => /\ daily_pnl >= max_daily_loss
             /\ (~trading_allowed) <=> (daily_pnl = max_daily_loss))
    /\ [][ (rm_state = "ok" /\ trading_allowed /\ ~trading_allowed')
           => /\ rm_last'.op = "update_pnl"
              /\ rm_last'.ret = TRUE
              /\ daily_pnl' = max_daily_loss
              /\ Len(rm_trades') >= 1
              /\ rm_trades'[Len(rm_trades')].cumulative_pnl = max_daily_loss
         ]_vars

\* the gate closed by an accepted update that landed on the limit after an
\* earlier accepted update had left cushion
C26_Witness ==
    /\ rm_state = "ok"
    /\ rm_last.op = "update_pnl"
    /\ rm_last.ret = TRUE
    /\ ~trading_allowed
    /\ daily_pnl = max_daily_loss
    /\ Len(rm_trades) = 2


\* C27: a day rollover resets only the risk state (the daily cumulative PnL
\* to 0) and does not touch positions: a position that is open at the last
\* sample of a day is still open, with the same entry price, at the first
\* sample of the next day unless that sample's price exits it, and every
\* entered position is closed only by a target or stop-loss exit whose PnL is
\* recorded in the trade log.
C27_RolloverKeepsPosition ==
    [][ (LoopStep /\ rm.open_position = "LONG")
        => /\ (NewDay /\ ~ExitLogged)
                => /\ rm'.open_position = "LONG"
                   /\ rm'.entry_price = rm.entry_price
                   /\ rm'.daily_pnl = 0
           /\ (rm'.open_position # "LONG" \/ rm'.entry_price # rm.entry_price)
                => /\ ExitLogged
                   /\ rm'.trade_log[Len(rm'.trade_log)].Reason
                          \in {"TARGET HIT", "STOP LOSS"}
                   /\ rm'.trade_log[Len(rm'.trade_log)].EntryPrice = rm.entry_price[1]
      ]_vars

====
